---- MODULE Spec2Model ----
(***************************************************************************)
(* A model of the reckshack screen-and-webcam recorder.                    *)
(*                                                                         *)
(*   Spec      Component       (src/app/page.tsx)                          *)
(*   SpecSR    ScreenRecorder  (src/components/screen-recorder.tsx and     *)
(*                              src/unnamed/part_000)                      *)
(*   SpecGeom  the overlay geometry of combineVideos (src/app/page.tsx)    *)
(*   SpecSRFair    SpecSR with every due host event delivered              *)
(*   SpecSettings  Component with its settings panel, one session          *)
(*                                                                         *)
(* Every call of startRecording is numbered (1, 2, ...).  The streams, the *)
(* recorders, the chunk arrays and the combineVideos run that belong to a  *)
(* call carry its number, and a ref holds the number of the call whose     *)
(* object it points to (0 is null).  The host (browser) is modelled by its *)
(* documented behaviour: a task runs to completion, MediaRecorder.stop()   *)
(* makes the recorder inactive at once and queues one task that fires      *)
(* dataavailable and then stop, tasks queued from one handler run in the   *)
(* order they were queued, and a recorder whose tracks have all ended      *)
(* stops on its own.                                                       *)
(***************************************************************************)
EXTENDS Integers, Sequences, FiniteSets, TLC

\* Bounds of the model.
MaxCalls == 2        \* startRecording calls in one behaviour
MaxChunks == 1       \* timeslice chunks one recorder emits before it stops
MaxSettingChanges == 2   \* changes made in the settings panel in one behaviour
SettingsCalls == 1   \* startRecording calls in a behaviour of SpecSettings

Calls == 1..MaxCalls

VARIABLES
  \* React state of the component
  mounted, recordingState, combinedRecordingUrl,
  screenRecordingUrl, webcamRecordingUrl,
  \* settings (React state) and the number of changes made to them
  videoQuality, webcamPosition, webcamSize, webcamBorderRadius, showPreview,
  settingChanges,
  \* the settings the memoised callbacks see: capturedSettings are those in the
  \* closure of the combineVideos that the rendered startRecording calls,
  \* callSettings[c] those of the combineVideos that call c will run
  capturedSettings, callSettings,
  \* the size of the recorded webcam video and the overlay last computed
  webcamVideoSize, overlay,
  \* refs
  screenStreamRef, webcamStreamRef, screenRecorderRef, webcamRecorderRef,
  audioAnalyserRef, animationFrameRef,
  \* per startRecording call
  pc, screenStream, webcamStream,
  screenRecorder, webcamRecorder, screenStopTask, webcamStopTask,
  screenChunks, webcamChunks,
  toastGranted, toastDenied, stopRequested, checkAudioScheduled,
  \* per combineVideos run (numbered by the call whose recorder stopped)
  combinePc, screenBlob, webcamBlob, screenVideo, webcamVideo,
  drawFrameScheduled, combinedRecorder, combinedStopTask, combinedOnstop,
  finalRecorder, finalStopTask, urlAssigned

uiVars == <<mounted, recordingState, combinedRecordingUrl,
            screenRecordingUrl, webcamRecordingUrl>>
settingVars == <<videoQuality, webcamPosition, webcamSize, webcamBorderRadius,
                 showPreview, settingChanges>>
geomVars == <<settingVars, capturedSettings, callSettings, webcamVideoSize,
              overlay>>
refVars == <<screenStreamRef, webcamStreamRef, screenRecorderRef,
             webcamRecorderRef, audioAnalyserRef, animationFrameRef>>
streamVars == <<screenStream, webcamStream>>
recorderVars == <<screenRecorder, webcamRecorder, screenStopTask, webcamStopTask>>
chunkVars == <<screenChunks, webcamChunks>>
callVars == <<pc, toastGranted, toastDenied, stopRequested, checkAudioScheduled>>
combineVars == <<combinePc, screenBlob, webcamBlob, screenVideo, webcamVideo,
                 drawFrameScheduled, combinedRecorder, combinedStopTask,
                 combinedOnstop, finalRecorder, finalStopTask, urlAssigned>>
vars == <<uiVars, geomVars, refVars, streamVars, recorderVars, chunkVars,
          callVars, combineVars>>

----------------------------------------------------------------------------
\* Overlay geometry: combineVideos, src/app/page.tsx lines 182-190.

videoQualities ==
  [ q480  |-> [width |-> 854,  height |-> 480],
    q720  |-> [width |-> 1280, height |-> 720],
    q1080 |-> [width |-> 1920, height |-> 1080],
    q1440 |-> [width |-> 2560, height |-> 1440],
    q2160 |-> [width |-> 3840, height |-> 2160] ]

VideoQuality == DOMAIN videoQualities

\* Bounds of the settings panel in the model: the sliders of the webcam size
\* and position move in strides.
SizeStride == 10
PositionStride == 25
RadiusStride == 25

\* The sliders (min, max of the <Slider> elements).
webcamSizeMin == 10
webcamSizeMax == 50
positionMin == 0
positionMax == 100
borderRadiusMin == 0
borderRadiusMax == 50

\* The useState initial values of the settings.
initialWebcamPosition == [x |-> 5, y |-> 80]
initialWebcamSize == 17
initialWebcamBorderRadius == 25

Strided(lo, hi, stride) ==
  {v \in lo..hi : (v - lo) % stride = 0} \cup {hi}

WebcamSizes == Strided(webcamSizeMin, webcamSizeMax, SizeStride)
Positions == Strided(positionMin, positionMax, PositionStride)
BorderRadii == Strided(borderRadiusMin, borderRadiusMax, RadiusStride)

\* videoWidth and videoHeight of the recorded webcam video (the host's
\* choice): landscape 16:9, landscape 4:3, portrait 3:4.
WebcamVideoSizes ==
  { [videoWidth |-> 1280, videoHeight |-> 720],
    [videoWidth |-> 640,  videoHeight |-> 480],
    [videoWidth |-> 480,  videoHeight |-> 640] }

RECURSIVE GCD(_, _)
GCD(a, b) == IF b = 0 THEN a ELSE GCD(b, a % b)

\* The geometry combineVideos computes, in exact arithmetic.  Every length is
\* given as a whole number of units of 1/unit pixel, where
\* unit = 10000 * (videoWidth / gcd(videoWidth, videoHeight)):
\*   webcamWidth  = (webcamSize / 100) * width
\*   webcamHeight = (webcamWidth / videoWidth) * videoHeight
\*   webcamX      = (webcamPosition.x / 100) * (width - webcamWidth)
\*   webcamY      = (webcamPosition.y / 100) * (height - webcamHeight)
Overlay(quality, size, position, video) ==
  LET g == GCD(video.videoWidth, video.videoHeight)
      aw == video.videoWidth \div g
      ah == video.videoHeight \div g
      w == videoQualities[quality].width
      h == videoQualities[quality].height
  IN [ computed |-> TRUE,
       unit |-> 10000 * aw,
       width |-> w * 10000 * aw,
       height |-> h * 10000 * aw,
       webcamWidth |-> size * w * 100 * aw,
       webcamHeight |-> size * w * 100 * ah,
       webcamX |-> position.x * (100 * w - size * w) * aw,
       webcamY |-> position.y * (100 * h * aw - size * w * ah) ]

----------------------------------------------------------------------------
\* Initial state: the component as mounted, before any click.

NoCall == [c \in Calls |-> 0]

\* What a combineVideos created in a render with these settings has in its
\* closure (its dependency list).
Captured(quality, position, size) ==
  [videoQuality |-> quality, webcamPosition |-> position, webcamSize |-> size]

\* The useState initial values and the callbacks of the first render.
InitSettings ==
  /\ videoQuality = "q1080"
  /\ webcamPosition = initialWebcamPosition
  /\ webcamSize = initialWebcamSize
  /\ webcamBorderRadius = initialWebcamBorderRadius
  /\ showPreview = FALSE
  /\ settingChanges = 0
  /\ capturedSettings = Captured(videoQuality, webcamPosition, webcamSize)
  /\ callSettings = [c \in Calls |-> capturedSettings]
  /\ webcamVideoSize = [videoWidth |-> 1280, videoHeight |-> 720]

\* Everything but the settings: no call, no stream, no recorder, no run.
InitSession ==
  /\ mounted = TRUE
  /\ recordingState = "idle"
  /\ combinedRecordingUrl = 0
  /\ screenRecordingUrl = <<>>
  /\ webcamRecordingUrl = <<>>
  /\ overlay = [computed |-> FALSE]
  /\ screenStreamRef = 0
  /\ webcamStreamRef = 0
  /\ screenRecorderRef = 0
  /\ webcamRecorderRef = 0
  /\ audioAnalyserRef = 0
  /\ animationFrameRef = 0
  /\ pc = [c \in Calls |-> "unused"]
  /\ screenStream = [c \in Calls |-> "none"]
  /\ webcamStream = [c \in Calls |-> "none"]
  /\ screenRecorder = [c \in Calls |-> "none"]
  /\ webcamRecorder = [c \in Calls |-> "none"]
  /\ screenStopTask = [c \in Calls |-> FALSE]
  /\ webcamStopTask = [c \in Calls |-> FALSE]
  /\ screenChunks = [c \in Calls |-> <<>>]
  /\ webcamChunks = [c \in Calls |-> <<>>]
  /\ toastGranted = NoCall
  /\ toastDenied = NoCall
  /\ stopRequested = [c \in Calls |-> FALSE]
  /\ checkAudioScheduled = [c \in Calls |-> FALSE]
  /\ combinePc = [c \in Calls |-> "none"]
  /\ screenBlob = [c \in Calls |-> <<>>]
  /\ webcamBlob = [c \in Calls |-> <<>>]
  /\ screenVideo = [c \in Calls |-> "none"]
  /\ webcamVideo = [c \in Calls |-> "none"]
  /\ drawFrameScheduled = [c \in Calls |-> FALSE]
  /\ combinedRecorder = [c \in Calls |-> "none"]
  /\ combinedStopTask = [c \in Calls |-> FALSE]
  /\ combinedOnstop = [c \in Calls |-> "none"]
  /\ finalRecorder = [c \in Calls |-> "none"]
  /\ finalStopTask = [c \in Calls |-> FALSE]
  /\ urlAssigned = NoCall

Init == InitSettings /\ InitSession

----------------------------------------------------------------------------
\* Host primitives.

\* React's setState: a no-op once the component is unmounted.
SetRecordingState(v) ==
  recordingState' = IF mounted THEN v ELSE recordingState

SetCombinedRecordingUrl(v) ==
  combinedRecordingUrl' = IF mounted THEN v ELSE combinedRecordingUrl

Active(r) == r \in {"recording", "paused"}

\* The k-th chunk a recorder of call c emits.
Chunk(kind, c, k) == <<kind, c, k>>

\* track.stop() on every track of the stream a ref holds (0: the ref is null).
StopTracks(streams, ref) ==
  IF ref = 0 THEN streams ELSE [streams EXCEPT ![ref] = "ended"]

\* cancelAnimationFrame(animationFrameRef.current): the handle is the request
\* the checkAudio loop of call animationFrameRef made last.
CancelAnimationFrame(sched, ref) ==
  IF ref = 0 THEN sched ELSE [sched EXCEPT ![ref] = FALSE]

----------------------------------------------------------------------------
\* Component (src/app/page.tsx): permissions and start.

\* The Start button (rendered while recordingState is "idle") calls
\* startRecording, which awaits requestPermissions, which awaits
\* getDisplayMedia.  Calls are numbered in the order they are made.  The
\* startRecording that runs is the memoised one of the render, and the
\* combineVideos its onstop handler will call is the one in its scope.
ClickStart(c) ==
  /\ mounted
  /\ recordingState = "idle"
  /\ pc[c] = "unused"
  /\ \A d \in Calls : d < c => pc[d] # "unused"
  /\ pc' = [pc EXCEPT ![c] = "awaitDisplay"]
  /\ callSettings' = [callSettings EXCEPT ![c] = capturedSettings]
  /\ UNCHANGED <<uiVars, settingVars, capturedSettings, webcamVideoSize, overlay,
                 refVars, streamVars, recorderVars, chunkVars,
                 toastGranted, toastDenied, stopRequested, checkAudioScheduled,
                 combineVars>>

\* getDisplayMedia resolves: requestPermissions goes on to await getUserMedia.
DisplayGranted(c) ==
  /\ pc[c] = "awaitDisplay"
  /\ pc' = [pc EXCEPT ![c] = "awaitUser"]
  /\ screenStream' = [screenStream EXCEPT ![c] = "live"]
  /\ UNCHANGED <<uiVars, geomVars, refVars, webcamStream, recorderVars, chunkVars,
                 toastGranted, toastDenied, stopRequested, checkAudioScheduled,
                 combineVars>>

\* A variant of the catch block that notifies twice.
PermissionDeniedTwice(c) ==
  /\ pc' = [pc EXCEPT ![c] = "denied"]
  /\ toastDenied' = [toastDenied EXCEPT ![c] = @ + 2]
  /\ UNCHANGED <<uiVars, geomVars, refVars, streamVars, recorderVars, chunkVars,
                 toastGranted, stopRequested, checkAudioScheduled, combineVars>>

\* The catch block of requestPermissions: one toast, return false; and
\* startRecording returns.
PermissionDenied(c) ==
  /\ pc' = [pc EXCEPT ![c] = "denied"]
  /\ toastDenied' = [toastDenied EXCEPT ![c] = @ + 1]
  /\ UNCHANGED <<uiVars, geomVars, refVars, streamVars, recorderVars, chunkVars,
                 toastGranted, stopRequested, checkAudioScheduled, combineVars>>

\* getDisplayMedia rejects.
DisplayDenied(c) ==
  /\ pc[c] = "awaitDisplay"
  /\ PermissionDenied(c)

\* A variant of startRecording that does not test permissionsGranted: after
\* the denial it goes on to create and start the recorders.
WebcamDeniedIgnored(c) ==
  /\ pc[c] = "awaitUser"
  /\ pc' = [pc EXCEPT ![c] = "denied"]
  /\ toastDenied' = [toastDenied EXCEPT ![c] = @ + 1]
  /\ screenRecorderRef' = c
  /\ webcamRecorderRef' = c
  /\ screenRecorder' = [screenRecorder EXCEPT ![c] = "recording"]
  /\ webcamRecorder' = [webcamRecorder EXCEPT ![c] = "recording"]
  /\ SetRecordingState("recording")
  /\ UNCHANGED <<mounted, combinedRecordingUrl, screenRecordingUrl,
                 webcamRecordingUrl, geomVars, screenStreamRef, webcamStreamRef,
                 audioAnalyserRef, animationFrameRef, streamVars, screenStopTask,
                 webcamStopTask, chunkVars, toastGranted, stopRequested,
                 checkAudioScheduled, combineVars>>

\* getUserMedia rejects: the display stream this call obtained is dropped as
\* it is (it was never stored in a ref).
WebcamDenied(c) ==
  /\ pc[c] = "awaitUser"
  /\ PermissionDenied(c)

\* getUserMedia resolves.  The rest of requestPermissions and of startRecording
\* runs without yielding to another task: the refs are set, the analyser is
\* made, "Permissions granted" is shown, both recorders are created, stored and
\* started, recordingState becomes "recording", and detectVoice runs checkAudio
\* once, which requests the next frame.
WebcamGranted(c) ==
  /\ pc[c] = "awaitUser"
  /\ pc' = [pc EXCEPT ![c] = "started"]
  /\ webcamStream' = [webcamStream EXCEPT ![c] = "live"]
  /\ screenStreamRef' = c
  /\ webcamStreamRef' = c
  /\ audioAnalyserRef' = c
  /\ toastGranted' = [toastGranted EXCEPT ![c] = @ + 1]
  /\ screenRecorderRef' = c
  /\ webcamRecorderRef' = c
  /\ screenRecorder' = [screenRecorder EXCEPT ![c] = "recording"]
  /\ webcamRecorder' = [webcamRecorder EXCEPT ![c] = "recording"]
  /\ SetRecordingState("recording")
  /\ checkAudioScheduled' = [checkAudioScheduled EXCEPT ![c] = TRUE]
  /\ animationFrameRef' = c
  /\ UNCHANGED <<mounted, combinedRecordingUrl, screenRecordingUrl,
                 webcamRecordingUrl, geomVars, screenStream, screenStopTask,
                 webcamStopTask, chunkVars, toastDenied, stopRequested,
                 combineVars>>

\* A frame of the voice-detection loop: checkAudio reads the analyser and
\* requests the next frame, storing its handle.
CheckAudio(c) ==
  /\ checkAudioScheduled[c]
  /\ animationFrameRef' = c
  /\ UNCHANGED <<uiVars, geomVars, screenStreamRef, webcamStreamRef,
                 screenRecorderRef, webcamRecorderRef, audioAnalyserRef,
                 streamVars, recorderVars, chunkVars, callVars, combineVars>>

----------------------------------------------------------------------------
\* Component: pause, resume, stop.

\* MediaRecorder.pause() and resume() throw InvalidStateError on an inactive
\* recorder; the handler then ends where the exception was thrown.
ClickPause ==
  /\ mounted
  /\ recordingState = "recording"
  /\ IF screenRecorderRef # 0 /\ webcamRecorderRef # 0
       THEN IF screenRecorder[screenRecorderRef] = "inactive"
              THEN UNCHANGED <<recordingState, screenRecorder, webcamRecorder>>
              ELSE /\ screenRecorder' =
                        [screenRecorder EXCEPT ![screenRecorderRef] = "paused"]
                   /\ IF webcamRecorder[webcamRecorderRef] = "inactive"
                        THEN UNCHANGED <<recordingState, webcamRecorder>>
                        ELSE /\ webcamRecorder' =
                                  [webcamRecorder EXCEPT ![webcamRecorderRef] = "paused"]
                             /\ SetRecordingState("paused")
       ELSE UNCHANGED <<recordingState, screenRecorder, webcamRecorder>>
  /\ UNCHANGED <<mounted, combinedRecordingUrl, screenRecordingUrl,
                 webcamRecordingUrl, geomVars, refVars, streamVars,
                 screenStopTask, webcamStopTask, chunkVars, callVars, combineVars>>

ClickResume ==
  /\ mounted
  /\ recordingState = "paused"
  /\ IF screenRecorderRef # 0 /\ webcamRecorderRef # 0
       THEN IF screenRecorder[screenRecorderRef] = "inactive"
              THEN UNCHANGED <<recordingState, screenRecorder, webcamRecorder>>
              ELSE /\ screenRecorder' =
                        [screenRecorder EXCEPT ![screenRecorderRef] = "recording"]
                   /\ IF webcamRecorder[webcamRecorderRef] = "inactive"
                        THEN UNCHANGED <<recordingState, webcamRecorder>>
                        ELSE /\ webcamRecorder' =
                                  [webcamRecorder EXCEPT ![webcamRecorderRef] = "recording"]
                             /\ SetRecordingState("recording")
       ELSE UNCHANGED <<recordingState, screenRecorder, webcamRecorder>>
  /\ UNCHANGED <<mounted, combinedRecordingUrl, screenRecordingUrl,
                 webcamRecordingUrl, geomVars, refVars, streamVars,
                 screenStopTask, webcamStopTask, chunkVars, callVars, combineVars>>

\* MediaRecorder.stop(): nothing on an inactive recorder; otherwise the
\* recorder is inactive at once and a task is queued that fires dataavailable
\* and then stop.
RecorderStop(rec, ref) ==
  IF Active(rec[ref]) THEN [rec EXCEPT ![ref] = "inactive"] ELSE rec

QueueStopTask(task, rec, ref) ==
  IF Active(rec[ref]) THEN [task EXCEPT ![ref] = TRUE] ELSE task

\* A variant of stopRecording that leaves the tracks of the webcam stream
\* running.
stopRecordingKeepsWebcamTracks ==
  /\ IF screenRecorderRef # 0 /\ webcamRecorderRef # 0
       THEN /\ screenRecorder' = RecorderStop(screenRecorder, screenRecorderRef)
            /\ screenStopTask' =
                 QueueStopTask(screenStopTask, screenRecorder, screenRecorderRef)
            /\ webcamRecorder' = RecorderStop(webcamRecorder, webcamRecorderRef)
            /\ webcamStopTask' =
                 QueueStopTask(webcamStopTask, webcamRecorder, webcamRecorderRef)
            /\ screenStream' = StopTracks(screenStream, screenStreamRef)
            /\ webcamStream' = webcamStream
            /\ checkAudioScheduled' =
                 CancelAnimationFrame(checkAudioScheduled, animationFrameRef)
            /\ stopRequested' = [stopRequested EXCEPT ![screenRecorderRef] = TRUE]
       ELSE UNCHANGED <<recorderVars, streamVars, checkAudioScheduled, stopRequested>>
  /\ UNCHANGED <<uiVars, geomVars, refVars, chunkVars, pc, toastGranted,
                 toastDenied, combineVars>>

\* The Stop button is enabled while recordingState is "recording" or "paused".
stopRecording ==
  /\ IF screenRecorderRef # 0 /\ webcamRecorderRef # 0
       THEN /\ screenRecorder' = RecorderStop(screenRecorder, screenRecorderRef)
            /\ screenStopTask' =
                 QueueStopTask(screenStopTask, screenRecorder, screenRecorderRef)
            /\ webcamRecorder' = RecorderStop(webcamRecorder, webcamRecorderRef)
            /\ webcamStopTask' =
                 QueueStopTask(webcamStopTask, webcamRecorder, webcamRecorderRef)
            /\ screenStream' = StopTracks(screenStream, screenStreamRef)
            /\ webcamStream' = StopTracks(webcamStream, webcamStreamRef)
            /\ checkAudioScheduled' =
                 CancelAnimationFrame(checkAudioScheduled, animationFrameRef)
            /\ stopRequested' = [stopRequested EXCEPT ![screenRecorderRef] = TRUE]
       ELSE UNCHANGED <<recorderVars, streamVars, checkAudioScheduled, stopRequested>>
  /\ UNCHANGED <<uiVars, geomVars, refVars, chunkVars, pc, toastGranted,
                 toastDenied, combineVars>>

ClickStop ==
  /\ mounted
  /\ recordingState \in {"recording", "paused"}
  /\ stopRecording

----------------------------------------------------------------------------
\* Component: recorder events.

\* A timeslice (start(1000)) of a recording recorder: ondataavailable pushes
\* the chunk onto the array of its call.
ScreenDataAvailable(c) ==
  /\ screenRecorder[c] = "recording"
  /\ Len(screenChunks[c]) < MaxChunks
  /\ screenChunks' = [screenChunks EXCEPT
                        ![c] = Append(@, Chunk("screen", c, Len(@) + 1))]
  /\ UNCHANGED <<uiVars, geomVars, refVars, streamVars, recorderVars,
                 webcamChunks, callVars, combineVars>>

WebcamDataAvailable(c) ==
  /\ webcamRecorder[c] = "recording"
  /\ Len(webcamChunks[c]) < MaxChunks
  /\ webcamChunks' = [webcamChunks EXCEPT
                        ![c] = Append(@, Chunk("webcam", c, Len(@) + 1))]
  /\ UNCHANGED <<uiVars, geomVars, refVars, streamVars, recorderVars,
                 screenChunks, callVars, combineVars>>

\* combineVideos up to its await: recordingState becomes "processing", two
\* video elements are created on the blobs, and the function waits for both
\* loadedmetadata events.
combineVideos(c, sBlob, wBlob) ==
  /\ SetRecordingState("processing")
  /\ combinePc' = [combinePc EXCEPT ![c] = "awaitMetadata"]
  /\ screenBlob' = [screenBlob EXCEPT ![c] = sBlob]
  /\ webcamBlob' = [webcamBlob EXCEPT ![c] = wBlob]
  /\ screenVideo' = [screenVideo EXCEPT ![c] = "loading"]
  /\ webcamVideo' = [webcamVideo EXCEPT ![c] = "loading"]
  /\ UNCHANGED <<drawFrameScheduled, combinedRecorder, combinedStopTask,
                 combinedOnstop, finalRecorder, finalStopTask, urlAssigned>>

\* screenRecorder.onstop: the blobs are built from the two arrays as they are
\* when the screen recorder's stop event is delivered.
screenRecorderOnstop(c, sChunks) ==
  combineVideos(c, sChunks, webcamChunks[c])

\* The task a stop() of the screen recorder queued: dataavailable with the
\* data gathered since the last chunk, then stop.
ScreenStopEvent(c) ==
  /\ screenStopTask[c]
  /\ screenStopTask' = [screenStopTask EXCEPT ![c] = FALSE]
  /\ LET sChunks == Append(screenChunks[c],
                           Chunk("screen", c, Len(screenChunks[c]) + 1))
     IN /\ screenChunks' = [screenChunks EXCEPT ![c] = sChunks]
        /\ screenRecorderOnstop(c, sChunks)
  /\ UNCHANGED <<mounted, combinedRecordingUrl, screenRecordingUrl,
                 webcamRecordingUrl, geomVars, refVars, streamVars,
                 screenRecorder, webcamRecorder, webcamStopTask, webcamChunks,
                 callVars>>

\* The task a stop() of the webcam recorder queued.  stopRecording stops the
\* screen recorder first, so this task runs after the screen recorder's.
\* The webcam recorder has no onstop handler.
WebcamStopEvent(c) ==
  /\ webcamStopTask[c]
  /\ ~screenStopTask[c]
  /\ webcamStopTask' = [webcamStopTask EXCEPT ![c] = FALSE]
  /\ webcamChunks' = [webcamChunks EXCEPT
                        ![c] = Append(@, Chunk("webcam", c, Len(@) + 1))]
  /\ UNCHANGED <<uiVars, geomVars, refVars, streamVars, screenRecorder,
                 webcamRecorder, screenStopTask, screenChunks, callVars,
                 combineVars>>

\* The user ends screen sharing from the browser's own controls while the
\* stream is being recorded: its tracks end.
UserEndsShare(c) ==
  /\ pc[c] = "started"
  /\ screenStream[c] = "live"
  /\ screenStream' = [screenStream EXCEPT ![c] = "ended"]
  /\ UNCHANGED <<uiVars, geomVars, refVars, webcamStream, recorderVars,
                 chunkVars, callVars, combineVars>>

\* A recorder whose tracks have all ended stops on its own: in one task it
\* becomes inactive and fires dataavailable and stop.
ScreenTracksEnded(c) ==
  /\ Active(screenRecorder[c])
  /\ screenStream[c] = "ended"
  /\ screenRecorder' = [screenRecorder EXCEPT ![c] = "inactive"]
  /\ LET sChunks == Append(screenChunks[c],
                           Chunk("screen", c, Len(screenChunks[c]) + 1))
     IN /\ screenChunks' = [screenChunks EXCEPT ![c] = sChunks]
        /\ screenRecorderOnstop(c, sChunks)
  /\ UNCHANGED <<mounted, combinedRecordingUrl, screenRecordingUrl,
                 webcamRecordingUrl, geomVars, refVars, streamVars,
                 webcamRecorder, screenStopTask, webcamStopTask, webcamChunks,
                 callVars>>

WebcamTracksEnded(c) ==
  /\ Active(webcamRecorder[c])
  /\ webcamStream[c] = "ended"
  /\ webcamRecorder' = [webcamRecorder EXCEPT ![c] = "inactive"]
  /\ webcamChunks' = [webcamChunks EXCEPT
                        ![c] = Append(@, Chunk("webcam", c, Len(@) + 1))]
  /\ UNCHANGED <<uiVars, geomVars, refVars, streamVars, screenRecorder,
                 screenStopTask, webcamStopTask, screenChunks, callVars,
                 combineVars>>

----------------------------------------------------------------------------
\* Component: combineVideos after its await.

\* A variant of combineVideos that installs no second handler on
\* combinedRecorder.onstop: the video-only handler of lines 199-203 stays.
combineVideosResumeKeepsFirstHandler(c, ctxOk, playOk) ==
  IF ~ctxOk
    THEN /\ combinePc' = [combinePc EXCEPT ![c] = "noContext"]
         /\ UNCHANGED <<overlay, drawFrameScheduled, combinedRecorder,
                        combinedStopTask, combinedOnstop, finalRecorder,
                        finalStopTask>>
    ELSE /\ combinePc' = [combinePc EXCEPT ![c] = "compositing"]
         /\ overlay' = Overlay(callSettings[c].videoQuality,
                               callSettings[c].webcamSize,
                               callSettings[c].webcamPosition, webcamVideoSize)
         /\ drawFrameScheduled' = [drawFrameScheduled EXCEPT ![c] = playOk]
         /\ combinedRecorder' = [combinedRecorder EXCEPT
                                   ![c] = IF playOk THEN "recording" ELSE "inactive"]
         /\ combinedStopTask' = [combinedStopTask EXCEPT ![c] = ~playOk]
         /\ finalRecorder' = [finalRecorder EXCEPT ![c] = "recording"]
         /\ combinedOnstop' = [combinedOnstop EXCEPT ![c] = "setUrl"]
         /\ UNCHANGED finalStopTask

\* The rest of combineVideos, run when both loadedmetadata events have been
\* delivered.  ctxOk: canvas.getContext("2d") returned a context.  playOk:
\* play() started playback (the element is no longer paused).
\*   - without a context the function returns;
\*   - the canvas size and the overlay geometry are computed from the
\*     settings in the closure of this combineVideos;
\*   - combinedRecorder is created with the video-only onstop handler and
\*     started; both videos are played; drawFrame runs once: it requests the
\*     next frame if the screen video is neither paused nor ended, and stops
\*     combinedRecorder otherwise;
\*   - finalRecorder is created and started, and combinedRecorder.onstop is
\*     replaced by the handler that stops finalRecorder.
combineVideosResume(c, ctxOk, playOk) ==
  IF ~ctxOk
    THEN /\ combinePc' = [combinePc EXCEPT ![c] = "noContext"]
         /\ UNCHANGED <<overlay, drawFrameScheduled, combinedRecorder,
                        combinedStopTask, combinedOnstop, finalRecorder,
                        finalStopTask>>
    ELSE /\ combinePc' = [combinePc EXCEPT ![c] = "compositing"]
         /\ overlay' = Overlay(callSettings[c].videoQuality,
                               callSettings[c].webcamSize,
                               callSettings[c].webcamPosition, webcamVideoSize)
         /\ drawFrameScheduled' = [drawFrameScheduled EXCEPT ![c] = playOk]
         /\ combinedRecorder' = [combinedRecorder EXCEPT
                                   ![c] = IF playOk THEN "recording" ELSE "inactive"]
         /\ combinedStopTask' = [combinedStopTask EXCEPT ![c] = ~playOk]
         /\ finalRecorder' = [finalRecorder EXCEPT ![c] = "recording"]
         /\ combinedOnstop' = [combinedOnstop EXCEPT ![c] = "stopFinal"]
         /\ UNCHANGED finalStopTask

\* What play() makes of a video whose metadata is loaded.
Played(playOk) == IF playOk THEN "playing" ELSE "ready"

\* loadedmetadata of the screen video: a blob with no data never loads.
ScreenLoadedMetadata(c, ctxOk, playOk) ==
  /\ combinePc[c] = "awaitMetadata"
  /\ screenVideo[c] = "loading"
  /\ Len(screenBlob[c]) > 0
  /\ IF webcamVideo[c] = "ready"
       THEN /\ combineVideosResume(c, ctxOk, playOk)
            /\ screenVideo' = [screenVideo EXCEPT
                                 ![c] = IF ctxOk THEN Played(playOk) ELSE "ready"]
            /\ webcamVideo' = [webcamVideo EXCEPT
                                 ![c] = IF ctxOk THEN Played(playOk) ELSE "ready"]
       ELSE /\ screenVideo' = [screenVideo EXCEPT ![c] = "ready"]
            /\ UNCHANGED <<combinePc, webcamVideo, overlay, drawFrameScheduled,
                           combinedRecorder, combinedStopTask, combinedOnstop,
                           finalRecorder, finalStopTask>>
  /\ UNCHANGED <<uiVars, settingVars, capturedSettings, callSettings,
                 webcamVideoSize, refVars, streamVars, recorderVars,
                 chunkVars, callVars, screenBlob, webcamBlob, urlAssigned>>

WebcamLoadedMetadata(c, ctxOk, playOk) ==
  /\ combinePc[c] = "awaitMetadata"
  /\ webcamVideo[c] = "loading"
  /\ Len(webcamBlob[c]) > 0
  /\ IF screenVideo[c] = "ready"
       THEN /\ combineVideosResume(c, ctxOk, playOk)
            /\ screenVideo' = [screenVideo EXCEPT
                                 ![c] = IF ctxOk THEN Played(playOk) ELSE "ready"]
            /\ webcamVideo' = [webcamVideo EXCEPT
                                 ![c] = IF ctxOk THEN Played(playOk) ELSE "ready"]
       ELSE /\ webcamVideo' = [webcamVideo EXCEPT ![c] = "ready"]
            /\ UNCHANGED <<combinePc, screenVideo, overlay, drawFrameScheduled,
                           combinedRecorder, combinedStopTask, combinedOnstop,
                           finalRecorder, finalStopTask>>
  /\ UNCHANGED <<uiVars, settingVars, capturedSettings, callSettings,
                 webcamVideoSize, refVars, streamVars, recorderVars,
                 chunkVars, callVars, screenBlob, webcamBlob, urlAssigned>>

\* Playback of the screen video reaches its end.
ScreenVideoEnded(c) ==
  /\ screenVideo[c] = "playing"
  /\ screenVideo' = [screenVideo EXCEPT ![c] = "ended"]
  /\ UNCHANGED <<uiVars, geomVars, refVars, streamVars, recorderVars,
                 chunkVars, callVars, combinePc, screenBlob, webcamBlob,
                 webcamVideo, drawFrameScheduled, combinedRecorder,
                 combinedStopTask, combinedOnstop, finalRecorder, finalStopTask,
                 urlAssigned>>

\* Playback of the webcam video reaches its end.
WebcamVideoEnded(c) ==
  /\ webcamVideo[c] = "playing"
  /\ webcamVideo' = [webcamVideo EXCEPT ![c] = "ended"]
  /\ UNCHANGED <<uiVars, geomVars, refVars, streamVars, recorderVars,
                 chunkVars, callVars, combinePc, screenBlob, webcamBlob,
                 screenVideo, drawFrameScheduled, combinedRecorder,
                 combinedStopTask, combinedOnstop, finalRecorder, finalStopTask,
                 urlAssigned>>

\* A variant of drawFrame that also ends the loop when the webcam video is no
\* longer playing.
drawFrameWatchesWebcam(c) ==
  /\ drawFrameScheduled[c]
  /\ IF screenVideo[c] = "playing" /\ webcamVideo[c] = "playing"
       THEN UNCHANGED <<drawFrameScheduled, combinedRecorder, combinedStopTask>>
       ELSE /\ drawFrameScheduled' = [drawFrameScheduled EXCEPT ![c] = FALSE]
            /\ combinedRecorder' = RecorderStop(combinedRecorder, c)
            /\ combinedStopTask' = QueueStopTask(combinedStopTask, combinedRecorder, c)
  /\ UNCHANGED <<uiVars, geomVars, refVars, streamVars, recorderVars,
                 chunkVars, callVars, combinePc, screenBlob, webcamBlob,
                 screenVideo, webcamVideo, combinedOnstop, finalRecorder,
                 finalStopTask, urlAssigned>>

\* An animation frame of the compositing loop: both videos are drawn, and the
\* next frame is requested unless the screen video is paused or ended, in
\* which case combinedRecorder is stopped.
drawFrame(c) ==
  /\ drawFrameScheduled[c]
  /\ IF screenVideo[c] = "playing"
       THEN UNCHANGED <<drawFrameScheduled, combinedRecorder, combinedStopTask>>
       ELSE /\ drawFrameScheduled' = [drawFrameScheduled EXCEPT ![c] = FALSE]
            /\ combinedRecorder' = RecorderStop(combinedRecorder, c)
            /\ combinedStopTask' = QueueStopTask(combinedStopTask, combinedRecorder, c)
  /\ UNCHANGED <<uiVars, geomVars, refVars, streamVars, recorderVars,
                 chunkVars, callVars, combinePc, screenBlob, webcamBlob,
                 screenVideo, webcamVideo, combinedOnstop, finalRecorder,
                 finalStopTask, urlAssigned>>

\* finalRecorder.onstop: the playback URL is set and recordingState is "idle".
finalRecorderOnstop(c) ==
  /\ SetCombinedRecordingUrl(c)
  /\ urlAssigned' = [urlAssigned EXCEPT ![c] = IF mounted THEN @ + 1 ELSE @]
  /\ SetRecordingState("idle")

\* The stop event of combinedRecorder runs the handler installed last.
CombinedStopEvent(c) ==
  /\ combinedStopTask[c]
  /\ combinedStopTask' = [combinedStopTask EXCEPT ![c] = FALSE]
  /\ IF combinedOnstop[c] = "stopFinal"
       THEN /\ finalRecorder' = RecorderStop(finalRecorder, c)
            /\ finalStopTask' = QueueStopTask(finalStopTask, finalRecorder, c)
            /\ UNCHANGED <<recordingState, combinedRecordingUrl, combinePc,
                           urlAssigned>>
       ELSE /\ finalRecorderOnstop(c)
            /\ combinePc' = [combinePc EXCEPT ![c] = "done"]
            /\ UNCHANGED <<finalRecorder, finalStopTask>>
  /\ UNCHANGED <<mounted, screenRecordingUrl, webcamRecordingUrl, geomVars,
                 refVars, streamVars, recorderVars, chunkVars, callVars,
                 screenBlob, webcamBlob, screenVideo, webcamVideo,
                 drawFrameScheduled, combinedRecorder, combinedOnstop>>

FinalStopEvent(c) ==
  /\ finalStopTask[c]
  /\ finalStopTask' = [finalStopTask EXCEPT ![c] = FALSE]
  /\ finalRecorderOnstop(c)
  /\ combinePc' = [combinePc EXCEPT ![c] = "done"]
  /\ UNCHANGED <<mounted, screenRecordingUrl, webcamRecordingUrl, geomVars,
                 refVars, streamVars, recorderVars, chunkVars, callVars,
                 screenBlob, webcamBlob, screenVideo, webcamVideo,
                 drawFrameScheduled, combinedRecorder, combinedStopTask,
                 combinedOnstop, finalRecorder>>

----------------------------------------------------------------------------
\* Component: teardown.

\* The cleanup of the mount effect: the tracks of the two stored streams are
\* stopped and the stored animation frame is cancelled.
Unmount ==
  /\ mounted
  /\ mounted' = FALSE
  /\ screenStream' = StopTracks(screenStream, screenStreamRef)
  /\ webcamStream' = StopTracks(webcamStream, webcamStreamRef)
  /\ checkAudioScheduled' =
       CancelAnimationFrame(checkAudioScheduled, animationFrameRef)
  /\ UNCHANGED <<recordingState, combinedRecordingUrl, screenRecordingUrl,
                 webcamRecordingUrl, geomVars, refVars, recorderVars, chunkVars,
                 pc, toastGranted, toastDenied, stopRequested, combineVars>>

----------------------------------------------------------------------------
Next ==
  \/ \E c \in Calls : ClickStart(c)
  \/ \E c \in Calls : DisplayGranted(c)
  \/ \E c \in Calls : DisplayDenied(c)
  \/ \E c \in Calls : WebcamGranted(c)
  \/ \E c \in Calls : WebcamDenied(c)
  \/ \E c \in Calls : CheckAudio(c)
  \/ ClickPause
  \/ ClickResume
  \/ ClickStop
  \/ \E c \in Calls : ScreenDataAvailable(c)
  \/ \E c \in Calls : WebcamDataAvailable(c)
  \/ \E c \in Calls : ScreenStopEvent(c)
  \/ \E c \in Calls : WebcamStopEvent(c)
  \/ \E c \in Calls : UserEndsShare(c)
  \/ \E c \in Calls : ScreenTracksEnded(c)
  \/ \E c \in Calls : WebcamTracksEnded(c)
  \/ \E c \in Calls, ctxOk, playOk \in BOOLEAN : ScreenLoadedMetadata(c, ctxOk, playOk)
  \/ \E c \in Calls, ctxOk, playOk \in BOOLEAN : WebcamLoadedMetadata(c, ctxOk, playOk)
  \/ \E c \in Calls : ScreenVideoEnded(c)
  \/ \E c \in Calls : WebcamVideoEnded(c)
  \/ \E c \in Calls : drawFrame(c)
  \/ \E c \in Calls : CombinedStopEvent(c)
  \/ \E c \in Calls : FinalStopEvent(c)
  \/ Unmount

Spec == Init /\ [][Next]_vars

----------------------------------------------------------------------------
\* Properties of Component (src/app/page.tsx), checked under Spec.

\* Both capture requests of call c succeeded.
PermissionsGranted(c) == screenStream[c] # "none" /\ webcamStream[c] # "none"

\* C1: recording never starts before permissions are granted.  A call has a
\* recorder (created, started or stopped) only if its display request and its
\* webcam request both succeeded, and recordingState is other than "idle" only
\* if some call made it past both requests.
C1_NoRecordingBeforePermissions ==
  /\ \A c \in Calls :
       (screenRecorder[c] # "none" \/ webcamRecorder[c] # "none"
          \/ pc[c] = "started")
         => PermissionsGranted(c)
  /\ recordingState # "idle"
       => \E c \in Calls : pc[c] = "started" /\ PermissionsGranted(c)

\* One call was denied the webcam after the display was granted and has no
\* recorder, while another call, granted both, is recording.
C1_Witness ==
  \E c, d \in Calls :
    /\ pc[c] = "denied" /\ screenStream[c] = "live"
    /\ screenRecorder[c] = "none" /\ webcamRecorder[c] = "none"
    /\ pc[d] = "started" /\ screenRecorder[d] = "recording"
    /\ recordingState = "recording"

\* C2: when combineVideos is invoked from the screen recorder's stop event,
\* at least one chunk of the screen recorder and at least one chunk of the
\* webcam recorder of that session are in the blobs it is given.
C2_BothChunksExist ==
  \A c \in Calls :
    combinePc[c] # "none" => Len(screenBlob[c]) >= 1 /\ Len(webcamBlob[c]) >= 1

\* The changes of recordingState the lifecycle allows.
LifecycleSteps ==
  { <<"idle", "recording">>, <<"recording", "paused">>, <<"paused", "recording">>,
    <<"recording", "processing">>, <<"paused", "processing">>,
    <<"processing", "idle">> }

\* C3: recordingState only ever changes along idle -> recording,
\* recording <-> paused, recording or paused -> processing, processing -> idle.
C3_Lifecycle ==
  [][recordingState' # recordingState
       => <<recordingState, recordingState'>> \in LifecycleSteps]_vars

\* The "Final Recording" card of the render.
FinalRecordingVisible == combinedRecordingUrl # 0 /\ recordingState = "idle"

\* C4: the playback URL of a session is assigned only after stopRecording
\* stopped both of its recorders and its compositing ran, it is assigned at
\* most once per session, and the player is visible only while idle.
C4_SessionOrder ==
  /\ \A c \in Calls :
       urlAssigned[c] > 0
         => /\ stopRequested[c]
            /\ screenRecorder[c] = "inactive" /\ webcamRecorder[c] = "inactive"
            /\ combinePc[c] = "done"
  /\ \A c \in Calls : urlAssigned[c] <= 1
  /\ FinalRecordingVisible => recordingState = "idle"

\* Something is still on its way that can change recordingState: a
\* compositing run the host still owes events to, a recorder whose stop event
\* is yet to come, or a startRecording call waiting for a prompt.
CombineCanFinish(c) ==
  \/ combinePc[c] = "compositing"
  \/ /\ combinePc[c] = "awaitMetadata"
     /\ Len(screenBlob[c]) > 0 /\ Len(webcamBlob[c]) > 0

ProcessingCanEnd ==
  \E c \in Calls :
    \/ CombineCanFinish(c)
    \/ Active(screenRecorder[c]) \/ screenStopTask[c]
    \/ pc[c] \in {"awaitDisplay", "awaitUser"}

\* C5: processing always finishes: while the mounted component shows
\* "processing", something is under way that ends it.
C5_ProcessingFinishes ==
  (mounted /\ recordingState = "processing") => ProcessingCanEnd

\* C6: a denied capture request yields exactly one "Permission denied" toast
\* and no "Permissions granted" toast, creates no recorder, changes neither the
\* refs nor the recorders nor recordingState, and the call never runs again.
C6_DenialStep(c) ==
  /\ toastDenied[c] = 0 /\ toastDenied'[c] = 1
  /\ toastGranted'[c] = 0
  /\ screenRecorder'[c] = "none" /\ webcamRecorder'[c] = "none"
  /\ UNCHANGED <<refVars, recorderVars, chunkVars, streamVars, recordingState,
                 combinedRecordingUrl>>
  /\ \A d \in Calls : d # c => pc'[d] = pc[d]

C6_SingleNotification ==
  [][\A c \in Calls :
       /\ (pc[c] # "denied" /\ pc'[c] = "denied") => C6_DenialStep(c)
       /\ pc[c] = "denied"
            => /\ pc'[c] = "denied"
               /\ toastDenied'[c] = toastDenied[c]
               /\ toastGranted'[c] = toastGranted[c]
               /\ screenRecorder'[c] = "none" /\ webcamRecorder'[c] = "none"]_vars

\* One call was denied at the display prompt and another at the webcam prompt,
\* each with its one toast, and nothing is recording.
C6_Witness ==
  \E c, d \in Calls :
    /\ pc[c] = "denied" /\ screenStream[c] = "none" /\ toastDenied[c] = 1
    /\ pc[d] = "denied" /\ screenStream[d] = "live" /\ toastDenied[d] = 1
    /\ recordingState = "idle"

\* C7: once the component is unmounted no capture track it obtained is live
\* and neither checkAudio nor drawFrame is scheduled.
C7_TeardownReleasesEverything ==
  ~mounted =>
    \A c \in Calls :
      /\ screenStream[c] # "live" /\ webcamStream[c] # "live"
      /\ ~checkAudioScheduled[c]
      /\ ~drawFrameScheduled[c]

\* C9: at most one screen recorder and one webcam recorder are active at a
\* time, an active recorder is the one its ref holds, and a live stream of a
\* call that is past its prompts is the one its ref holds.
C9_OneSessionAtATime ==
  /\ Cardinality({c \in Calls : Active(screenRecorder[c])}) <= 1
  /\ Cardinality({c \in Calls : Active(webcamRecorder[c])}) <= 1
  /\ \A c \in Calls :
       /\ Active(screenRecorder[c]) => screenRecorderRef = c
       /\ Active(webcamRecorder[c]) => webcamRecorderRef = c
       /\ (pc[c] \in {"started", "denied"} /\ screenStream[c] = "live")
            => screenStreamRef = c
       /\ (pc[c] \in {"started", "denied"} /\ webcamStream[c] = "live")
            => webcamStreamRef = c

\* What a run of stopRecording with both recorder refs set leaves behind.
C12_Stopped ==
  /\ ~Active(screenRecorder'[screenRecorderRef])
  /\ ~Active(webcamRecorder'[webcamRecorderRef])
  /\ Active(screenRecorder[screenRecorderRef]) => screenStopTask'[screenRecorderRef]
  /\ Active(webcamRecorder[webcamRecorderRef]) => webcamStopTask'[webcamRecorderRef]
  /\ screenStreamRef # 0 => screenStream'[screenStreamRef] = "ended"
  /\ webcamStreamRef # 0 => webcamStream'[webcamStreamRef] = "ended"
  /\ animationFrameRef # 0 => ~checkAudioScheduled'[animationFrameRef]

\* C12: a run of stopRecording with both recorder refs set stops both
\* recorders and every track of both stored streams and cancels the stored
\* voice-detection frame, and does not change recordingState; with a recorder
\* ref null it changes nothing; and recordingState becomes "processing" only
\* in a step that delivers the stop event of a screen recorder.
C12_StopStopsTracks ==
  [][/\ ClickStop
          => /\ recordingState' = recordingState
             /\ IF screenRecorderRef # 0 /\ webcamRecorderRef # 0
                  THEN C12_Stopped
                  ELSE UNCHANGED vars
     /\ (recordingState # "processing" /\ recordingState' = "processing")
          => \E c \in Calls :
               /\ combinePc[c] = "none" /\ combinePc'[c] = "awaitMetadata"
               /\ screenRecorder'[c] = "inactive"
               /\ ~screenStopTask'[c]]_vars

\* stopRecording has just run on a recording session: both recorders are
\* inactive with their stop events due, the tracks are ended, no checkAudio is
\* scheduled, and recordingState is what it was.
C12_Witness ==
  \E c \in Calls :
    /\ stopRequested[c] /\ screenRecorderRef = c /\ webcamRecorderRef = c
    /\ screenRecorder[c] = "inactive" /\ webcamRecorder[c] = "inactive"
    /\ screenStopTask[c] /\ webcamStopTask[c]
    /\ screenStream[c] = "ended" /\ webcamStream[c] = "ended"
    /\ ~checkAudioScheduled[c]
    /\ recordingState \in {"recording", "paused"}

\* C14: the recordings handed to combineVideos are complete: once a run
\* exists, both recorders of its session have emitted their last chunk, and
\* screenBlob (webcamBlob) is the sequence of all chunks the screen (webcam)
\* recorder emitted, in order, each once and none of the other recorder.
C14_BlobsComplete ==
  \A c \in Calls :
    combinePc[c] # "none"
      => /\ ~Active(screenRecorder[c]) /\ ~screenStopTask[c]
         /\ ~Active(webcamRecorder[c]) /\ ~webcamStopTask[c]
         /\ screenBlob[c] = screenChunks[c]
         /\ webcamBlob[c] = webcamChunks[c]
         /\ \A i \in 1..Len(screenBlob[c]) : screenBlob[c][i] = Chunk("screen", c, i)
         /\ \A i \in 1..Len(webcamBlob[c]) : webcamBlob[c][i] = Chunk("webcam", c, i)

\* C15: in each combineVideos run the compositing loop stops the canvas
\* recorder exactly once.  While a frame is requested and the screen video is
\* playing the loop stays requested, whatever the webcam video does;
\* combinedRecorder is stopped only in a step that finds the screen video
\* paused or ended, that step requests no further frame and queues the one
\* stop event; and once combinedRecorder is inactive it stays inactive, no
\* frame is requested again and no second stop event is queued.
C15_LoopStopsRecorderOnce ==
  [][\A c \in Calls :
       /\ (drawFrameScheduled[c] /\ screenVideo[c] = "playing")
            => /\ drawFrameScheduled'[c]
               /\ combinedRecorder'[c] = combinedRecorder[c]
       /\ (combinedRecorder[c] # "inactive" /\ combinedRecorder'[c] = "inactive")
            => /\ screenVideo'[c] # "playing"
               /\ ~drawFrameScheduled'[c]
               /\ ~combinedStopTask[c] /\ combinedStopTask'[c]
       /\ combinedRecorder[c] = "inactive"
            => /\ combinedRecorder'[c] = "inactive"
               /\ ~drawFrameScheduled'[c]
               /\ combinedStopTask'[c] => combinedStopTask[c]
       /\ (drawFrameScheduled[c] /\ ~drawFrameScheduled'[c])
            => combinedRecorder[c] = "recording" /\ combinedRecorder'[c] = "inactive"]_vars

\* The webcam video ended while the screen video was playing; the loop went
\* on until the screen video ended and then stopped combinedRecorder, whose
\* stop event is due.
C15_Witness ==
  \E c \in Calls :
    /\ combinePc[c] = "compositing"
    /\ webcamVideo[c] = "ended" /\ screenVideo[c] = "ended"
    /\ ~drawFrameScheduled[c]
    /\ combinedRecorder[c] = "inactive" /\ combinedStopTask[c]

\* C17: whenever the mounted component shows "idle" or "processing", the
\* recorders of every session that was started are inactive, none of its
\* capture tracks is live and its checkAudio callback is not scheduled.
C17_QuietWhenNotRecording ==
  (mounted /\ recordingState \in {"idle", "processing"})
    => \A c \in Calls :
         pc[c] = "started"
           => /\ ~Active(screenRecorder[c]) /\ ~Active(webcamRecorder[c])
              /\ screenStream[c] # "live" /\ webcamStream[c] # "live"
              /\ ~checkAudioScheduled[c]

\* C18: the UI state agrees with the recorders the refs hold: while the
\* mounted component shows "recording" both are recording, and while it shows
\* "paused" both are paused, so that a click on Pause, Resume or Stop finds
\* recorders on which pause(), resume() and stop() are valid.
C18_UiAgreesWithRecorders ==
  (mounted /\ recordingState \in {"recording", "paused"})
    => /\ screenRecorderRef # 0 /\ webcamRecorderRef # 0
       /\ screenRecorder[screenRecorderRef] = recordingState
       /\ webcamRecorder[webcamRecorderRef] = recordingState

\* C19: a failed start leaves nothing capturing: once a startRecording call
\* has ended on a denied request, no capture track obtained during that call
\* is live.
C19_FailedStartReleasesTracks ==
  \A c \in Calls :
    pc[c] = "denied" => screenStream[c] # "live" /\ webcamStream[c] # "live"

\* The stop event of the final recorder of run c is delivered in this step.
C21_FinalStopDelivered(c) ==
  /\ finalStopTask[c] /\ ~finalStopTask'[c]
  /\ finalRecorder[c] = "inactive"
  /\ combinePc'[c] = "done"

\* C21: the playback URL always comes from the final recorder.  In every
\* step that sets combinedRecordingUrl, counts a URL for a run or takes
\* recordingState from "processing" to "idle", the stop event of a final
\* recorder is delivered; the stop event of combinedRecorder, whenever it is
\* delivered, finds the handler that stops the final recorder and finds the
\* final recorder started (recording), also when drawFrame stopped
\* combinedRecorder in its first invocation; and a final recorder becomes
\* inactive only from recording.
C21_UrlFromFinalRecorder ==
  [][/\ (\/ combinedRecordingUrl' # combinedRecordingUrl
         \/ urlAssigned' # urlAssigned
         \/ (recordingState = "processing" /\ recordingState' = "idle"))
          => \E c \in Calls : C21_FinalStopDelivered(c)
     /\ \A c \in Calls :
          /\ combinedStopTask[c]
               => combinedOnstop[c] = "stopFinal" /\ finalRecorder[c] = "recording"
          /\ (combinedStopTask[c] /\ ~combinedStopTask'[c])
               => finalRecorder'[c] = "inactive" /\ finalStopTask'[c]
          /\ (finalRecorder[c] # "inactive" /\ finalRecorder'[c] = "inactive")
               => finalRecorder[c] = "recording"]_vars

\* A run whose screen video never played: drawFrame stopped combinedRecorder
\* in its first invocation, and the run still ended through the final
\* recorder, whose handler set the URL and "idle".
C21_Witness ==
  \E c \in Calls :
    /\ combinePc[c] = "done" /\ screenVideo[c] = "ready"
    /\ combinedRecorder[c] = "inactive" /\ finalRecorder[c] = "inactive"
    /\ ~combinedStopTask[c] /\ ~finalStopTask[c]
    /\ urlAssigned[c] = 1 /\ combinedRecordingUrl = c
    /\ recordingState = "idle"

----------------------------------------------------------------------------
\* ScreenRecorder (src/components/screen-recorder.tsx, src/unnamed/part_000).
\* ClickStart, DisplayGranted, DisplayDenied, WebcamDenied, ClickPause,
\* ClickResume, UserEndsShare, ScreenVideoEnded, WebcamVideoEnded and drawFrame
\* are the same code as in Component.  A recording URL is modelled by the chunks of its blob
\* (<<>> is null).

\* getUserMedia resolves: the refs are set, "Permissions granted" is shown,
\* both recorders are created, stored and started, recordingState becomes
\* "recording".
SR_WebcamGranted(c) ==
  /\ pc[c] = "awaitUser"
  /\ pc' = [pc EXCEPT ![c] = "started"]
  /\ webcamStream' = [webcamStream EXCEPT ![c] = "live"]
  /\ screenStreamRef' = c
  /\ webcamStreamRef' = c
  /\ toastGranted' = [toastGranted EXCEPT ![c] = @ + 1]
  /\ screenRecorderRef' = c
  /\ webcamRecorderRef' = c
  /\ screenRecorder' = [screenRecorder EXCEPT ![c] = "recording"]
  /\ webcamRecorder' = [webcamRecorder EXCEPT ![c] = "recording"]
  /\ SetRecordingState("recording")
  /\ UNCHANGED <<mounted, combinedRecordingUrl, screenRecordingUrl,
                 webcamRecordingUrl, geomVars, audioAnalyserRef,
                 animationFrameRef, screenStream, screenStopTask,
                 webcamStopTask, chunkVars, toastDenied, stopRequested,
                 checkAudioScheduled, combineVars>>

\* screenRecorder.ondataavailable: the chunk is pushed and screenRecordingUrl
\* is set to a URL of the blob of all chunks so far.
SR_screenOndataavailable(c) ==
  LET chunks == Append(screenChunks[c],
                       Chunk("screen", c, Len(screenChunks[c]) + 1))
  IN /\ screenChunks' = [screenChunks EXCEPT ![c] = chunks]
     /\ screenRecordingUrl' = chunks

SR_webcamOndataavailable(c) ==
  LET chunks == Append(webcamChunks[c],
                       Chunk("webcam", c, Len(webcamChunks[c]) + 1))
  IN /\ webcamChunks' = [webcamChunks EXCEPT ![c] = chunks]
     /\ webcamRecordingUrl' = chunks

\* A timeslice of a recording recorder.
SR_ScreenDataAvailable(c) ==
  /\ screenRecorder[c] = "recording"
  /\ Len(screenChunks[c]) < MaxChunks
  /\ SR_screenOndataavailable(c)
  /\ UNCHANGED <<mounted, recordingState, combinedRecordingUrl,
                 webcamRecordingUrl, geomVars, refVars, streamVars,
                 recorderVars, webcamChunks, callVars, combineVars>>

SR_WebcamDataAvailable(c) ==
  /\ webcamRecorder[c] = "recording"
  /\ Len(webcamChunks[c]) < MaxChunks
  /\ SR_webcamOndataavailable(c)
  /\ UNCHANGED <<mounted, recordingState, combinedRecordingUrl,
                 screenRecordingUrl, geomVars, refVars, streamVars,
                 recorderVars, screenChunks, callVars, combineVars>>

\* The task a stop() queued: dataavailable, then stop (no onstop handler).
SR_ScreenStopEvent(c) ==
  /\ screenStopTask[c]
  /\ screenStopTask' = [screenStopTask EXCEPT ![c] = FALSE]
  /\ SR_screenOndataavailable(c)
  /\ UNCHANGED <<mounted, recordingState, combinedRecordingUrl,
                 webcamRecordingUrl, geomVars, refVars, streamVars,
                 screenRecorder, webcamRecorder, webcamStopTask, webcamChunks,
                 callVars, combineVars>>

SR_WebcamStopEvent(c) ==
  /\ webcamStopTask[c]
  /\ ~screenStopTask[c]
  /\ webcamStopTask' = [webcamStopTask EXCEPT ![c] = FALSE]
  /\ SR_webcamOndataavailable(c)
  /\ UNCHANGED <<mounted, recordingState, combinedRecordingUrl,
                 screenRecordingUrl, geomVars, refVars, streamVars,
                 screenRecorder, webcamRecorder, screenStopTask, screenChunks,
                 callVars, combineVars>>

\* A recorder whose tracks have all ended stops on its own.
SR_ScreenTracksEnded(c) ==
  /\ Active(screenRecorder[c])
  /\ screenStream[c] = "ended"
  /\ screenRecorder' = [screenRecorder EXCEPT ![c] = "inactive"]
  /\ SR_screenOndataavailable(c)
  /\ UNCHANGED <<mounted, recordingState, combinedRecordingUrl,
                 webcamRecordingUrl, geomVars, refVars, streamVars,
                 webcamRecorder, screenStopTask, webcamStopTask, webcamChunks,
                 callVars, combineVars>>

\* A variant of combineVideos without the test of the two URLs.
SR_combineVideosUnguarded(c) ==
  /\ combinePc' = [combinePc EXCEPT ![c] = "awaitMetadata"]
  /\ screenBlob' = [screenBlob EXCEPT ![c] = screenRecordingUrl]
  /\ webcamBlob' = [webcamBlob EXCEPT ![c] = webcamRecordingUrl]
  /\ screenVideo' = [screenVideo EXCEPT ![c] = "loading"]
  /\ webcamVideo' = [webcamVideo EXCEPT ![c] = "loading"]
  /\ UNCHANGED <<drawFrameScheduled, combinedRecorder, combinedStopTask,
                 combinedOnstop, finalRecorder, finalStopTask, urlAssigned>>

\* combineVideos up to its await, with the two URLs of the render whose
\* stopRecording calls it: it returns at once when either is null, and
\* otherwise creates the two video elements on them and waits for both
\* loadedmetadata events.  The run is numbered by the call whose recorders
\* stopRecording has just stopped.
SR_combineVideos(c) ==
  IF screenRecordingUrl = <<>> \/ webcamRecordingUrl = <<>>
    THEN UNCHANGED combineVars
    ELSE /\ combinePc' = [combinePc EXCEPT ![c] = "awaitMetadata"]
         /\ screenBlob' = [screenBlob EXCEPT ![c] = screenRecordingUrl]
         /\ webcamBlob' = [webcamBlob EXCEPT ![c] = webcamRecordingUrl]
         /\ screenVideo' = [screenVideo EXCEPT ![c] = "loading"]
         /\ webcamVideo' = [webcamVideo EXCEPT ![c] = "loading"]
         /\ UNCHANGED <<drawFrameScheduled, combinedRecorder, combinedStopTask,
                        combinedOnstop, finalRecorder, finalStopTask,
                        urlAssigned>>

\* stopRecording: both recorders are stopped, recordingState becomes "idle",
\* the tracks are stopped and combineVideos is called.
SR_stopRecording ==
  /\ IF screenRecorderRef # 0 /\ webcamRecorderRef # 0
       THEN /\ screenRecorder' = RecorderStop(screenRecorder, screenRecorderRef)
            /\ screenStopTask' =
                 QueueStopTask(screenStopTask, screenRecorder, screenRecorderRef)
            /\ webcamRecorder' = RecorderStop(webcamRecorder, webcamRecorderRef)
            /\ webcamStopTask' =
                 QueueStopTask(webcamStopTask, webcamRecorder, webcamRecorderRef)
            /\ SetRecordingState("idle")
            /\ screenStream' = StopTracks(screenStream, screenStreamRef)
            /\ webcamStream' = StopTracks(webcamStream, webcamStreamRef)
            /\ stopRequested' = [stopRequested EXCEPT ![screenRecorderRef] = TRUE]
            /\ SR_combineVideos(screenRecorderRef)
       ELSE UNCHANGED <<recorderVars, recordingState, streamVars,
                        stopRequested, combineVars>>
  /\ UNCHANGED <<mounted, combinedRecordingUrl, screenRecordingUrl,
                 webcamRecordingUrl, geomVars, refVars, chunkVars, pc,
                 toastGranted, toastDenied, checkAudioScheduled>>

\* The Stop button is enabled unless recordingState is "idle".
SR_ClickStop ==
  /\ mounted
  /\ recordingState # "idle"
  /\ SR_stopRecording

\* The rest of combineVideos once both loadedmetadata events are in: without
\* a canvas context it returns; otherwise combinedRecorder is created with the
\* onstop handler that sets combinedRecordingUrl and started, both videos are
\* played and drawFrame runs once.
SR_combineVideosResume(c, ctxOk, playOk) ==
  IF ~ctxOk
    THEN /\ combinePc' = [combinePc EXCEPT ![c] = "noContext"]
         /\ UNCHANGED <<drawFrameScheduled, combinedRecorder, combinedStopTask,
                        combinedOnstop>>
    ELSE /\ combinePc' = [combinePc EXCEPT ![c] = "compositing"]
         /\ drawFrameScheduled' = [drawFrameScheduled EXCEPT ![c] = playOk]
         /\ combinedRecorder' = [combinedRecorder EXCEPT
                                   ![c] = IF playOk THEN "recording" ELSE "inactive"]
         /\ combinedStopTask' = [combinedStopTask EXCEPT ![c] = ~playOk]
         /\ combinedOnstop' = [combinedOnstop EXCEPT ![c] = "setUrl"]

SR_ScreenLoadedMetadata(c, ctxOk, playOk) ==
  /\ combinePc[c] = "awaitMetadata"
  /\ screenVideo[c] = "loading"
  /\ Len(screenBlob[c]) > 0
  /\ IF webcamVideo[c] = "ready"
       THEN /\ SR_combineVideosResume(c, ctxOk, playOk)
            /\ screenVideo' = [screenVideo EXCEPT
                                 ![c] = IF ctxOk THEN Played(playOk) ELSE "ready"]
            /\ webcamVideo' = [webcamVideo EXCEPT
                                 ![c] = IF ctxOk THEN Played(playOk) ELSE "ready"]
       ELSE /\ screenVideo' = [screenVideo EXCEPT ![c] = "ready"]
            /\ UNCHANGED <<combinePc, webcamVideo, drawFrameScheduled,
                           combinedRecorder, combinedStopTask, combinedOnstop>>
  /\ UNCHANGED <<uiVars, geomVars, refVars, streamVars, recorderVars,
                 chunkVars, callVars, screenBlob, webcamBlob, finalRecorder,
                 finalStopTask, urlAssigned>>

SR_WebcamLoadedMetadata(c, ctxOk, playOk) ==
  /\ combinePc[c] = "awaitMetadata"
  /\ webcamVideo[c] = "loading"
  /\ Len(webcamBlob[c]) > 0
  /\ IF screenVideo[c] = "ready"
       THEN /\ SR_combineVideosResume(c, ctxOk, playOk)
            /\ screenVideo' = [screenVideo EXCEPT
                                 ![c] = IF ctxOk THEN Played(playOk) ELSE "ready"]
            /\ webcamVideo' = [webcamVideo EXCEPT
                                 ![c] = IF ctxOk THEN Played(playOk) ELSE "ready"]
       ELSE /\ webcamVideo' = [webcamVideo EXCEPT ![c] = "ready"]
            /\ UNCHANGED <<combinePc, screenVideo, drawFrameScheduled,
                           combinedRecorder, combinedStopTask, combinedOnstop>>
  /\ UNCHANGED <<uiVars, geomVars, refVars, streamVars, recorderVars,
                 chunkVars, callVars, screenBlob, webcamBlob, finalRecorder,
                 finalStopTask, urlAssigned>>

\* The stop event of combinedRecorder: combinedRecordingUrl is set.
SR_CombinedStopEvent(c) ==
  /\ combinedStopTask[c]
  /\ combinedStopTask' = [combinedStopTask EXCEPT ![c] = FALSE]
  /\ SetCombinedRecordingUrl(c)
  /\ urlAssigned' = [urlAssigned EXCEPT ![c] = IF mounted THEN @ + 1 ELSE @]
  /\ combinePc' = [combinePc EXCEPT ![c] = "done"]
  /\ UNCHANGED <<mounted, recordingState, screenRecordingUrl,
                 webcamRecordingUrl, geomVars, refVars, streamVars,
                 recorderVars, chunkVars, callVars, screenBlob, webcamBlob,
                 screenVideo, webcamVideo, drawFrameScheduled, combinedRecorder,
                 combinedOnstop, finalRecorder, finalStopTask>>

NextSR ==
  \/ \E c \in Calls : ClickStart(c)
  \/ \E c \in Calls : DisplayGranted(c)
  \/ \E c \in Calls : DisplayDenied(c)
  \/ \E c \in Calls : WebcamDenied(c)
  \/ \E c \in Calls : SR_WebcamGranted(c)
  \/ ClickPause
  \/ ClickResume
  \/ SR_ClickStop
  \/ \E c \in Calls : SR_ScreenDataAvailable(c)
  \/ \E c \in Calls : SR_WebcamDataAvailable(c)
  \/ \E c \in Calls : SR_ScreenStopEvent(c)
  \/ \E c \in Calls : SR_WebcamStopEvent(c)
  \/ \E c \in Calls : UserEndsShare(c)
  \/ \E c \in Calls : SR_ScreenTracksEnded(c)
  \/ \E c \in Calls, ctxOk, playOk \in BOOLEAN : SR_ScreenLoadedMetadata(c, ctxOk, playOk)
  \/ \E c \in Calls, ctxOk, playOk \in BOOLEAN : SR_WebcamLoadedMetadata(c, ctxOk, playOk)
  \/ \E c \in Calls : ScreenVideoEnded(c)
  \/ \E c \in Calls : WebcamVideoEnded(c)
  \/ \E c \in Calls : drawFrame(c)
  \/ \E c \in Calls : SR_CombinedStopEvent(c)

SpecSR == Init /\ [][NextSR]_vars

\* C10: the recordings combineVideos composites when a session is stopped
\* consist only of chunks recorded in that session.
C10_SessionScopedRecordings ==
  \A c \in Calls :
    combinePc[c] # "none"
      => /\ \A i \in 1..Len(screenBlob[c]) : screenBlob[c][i][2] = c
         /\ \A i \in 1..Len(webcamBlob[c]) : webcamBlob[c][i][2] = c

\* C11: in ScreenRecorder, combineVideos does nothing while
\* screenRecordingUrl or webcamRecordingUrl is null: in no step taken from such
\* a state is a video element or a recorder created or any state of a
\* compositing run or combinedRecordingUrl changed, so a run that exists has
\* at least one chunk in each of its two recordings.
C11_NoCombineWithoutUrls ==
  [][/\ (screenRecordingUrl = <<>> \/ webcamRecordingUrl = <<>>)
          => UNCHANGED <<combineVars, combinedRecordingUrl>>
     /\ \A c \in Calls :
          combinePc'[c] # "none"
            => Len(screenBlob'[c]) >= 1 /\ Len(webcamBlob'[c]) >= 1]_vars

\* stopRecording has run on a session whose webcam recorder had delivered no
\* chunk yet (the screen recorder had), and no compositing run was made.
C11_Witness ==
  \E c \in Calls :
    /\ stopRequested[c]
    /\ screenRecorder[c] = "inactive" /\ webcamRecorder[c] = "inactive"
    /\ screenRecordingUrl # <<>> /\ webcamRecordingUrl = <<>>
    /\ recordingState = "idle"
    /\ \A d \in Calls : combinePc[d] = "none"

\* The host delivers its media events: every recorder event, loadedmetadata
\* event, end of playback and animation frame that is due is delivered.
SR_HostDelivers ==
  \A c \in Calls :
    /\ WF_vars(SR_ScreenDataAvailable(c))
    /\ WF_vars(SR_WebcamDataAvailable(c))
    /\ WF_vars(SR_ScreenStopEvent(c))
    /\ WF_vars(SR_WebcamStopEvent(c))
    /\ WF_vars(SR_ScreenTracksEnded(c))
    /\ WF_vars(\E ctxOk, playOk \in BOOLEAN : SR_ScreenLoadedMetadata(c, ctxOk, playOk))
    /\ WF_vars(\E ctxOk, playOk \in BOOLEAN : SR_WebcamLoadedMetadata(c, ctxOk, playOk))
    /\ WF_vars(ScreenVideoEnded(c))
    /\ WF_vars(WebcamVideoEnded(c))
    /\ WF_vars(drawFrame(c))
    /\ WF_vars(SR_CombinedStopEvent(c))

SpecSRFair == SpecSR /\ SR_HostDelivers

\* C16: in ScreenRecorder every stop produces a combined recording: once
\* stopRecording has run on the recorders of a session, combinedRecordingUrl
\* is eventually set to the composite of that session (unless the canvas
\* of the run gave no 2d context).
C16_EveryStopProducesRecording ==
  \A c \in Calls :
    stopRequested[c] ~> (urlAssigned[c] > 0 \/ combinePc[c] = "noContext")

----------------------------------------------------------------------------
\* The settings panel (src/app/page.tsx).

\* Everything but the settings and the overlay.
sessionVars == <<uiVars, refVars, streamVars, recorderVars, chunkVars,
                 callVars, combineVars>>

isRecording == recordingState \in {"recording", "paused"}

\* Every control of the settings panel has disabled={isRecording}.
SettingsEnabled ==
  /\ mounted
  /\ ~isRecording
  /\ settingChanges < MaxSettingChanges

\* The quality select.  The new render makes a new requestPermissions and so a
\* new startRecording, whose scope holds the combineVideos of that render.
SetVideoQuality(value) ==
  /\ SettingsEnabled
  /\ value # videoQuality
  /\ videoQuality' = value
  /\ capturedSettings' = Captured(value, webcamPosition, webcamSize)
  /\ settingChanges' = settingChanges + 1
  /\ UNCHANGED <<webcamPosition, webcamSize, webcamBorderRadius, showPreview,
                 callSettings, webcamVideoSize, overlay, sessionVars>>

\* The size and position sliders.  The new render makes a new combineVideos,
\* but startRecording is the memoised one and still holds the old one.
SetWebcamSize(value) ==
  /\ SettingsEnabled
  /\ value # webcamSize
  /\ webcamSize' = value
  /\ settingChanges' = settingChanges + 1
  /\ UNCHANGED <<videoQuality, webcamPosition, webcamBorderRadius, showPreview,
                 capturedSettings, callSettings, webcamVideoSize, overlay,
                 sessionVars>>

SetWebcamX(value) ==
  /\ SettingsEnabled
  /\ value # webcamPosition.x
  /\ webcamPosition' = [webcamPosition EXCEPT !.x = value]
  /\ settingChanges' = settingChanges + 1
  /\ UNCHANGED <<videoQuality, webcamSize, webcamBorderRadius, showPreview,
                 capturedSettings, callSettings, webcamVideoSize, overlay,
                 sessionVars>>

SetWebcamY(value) ==
  /\ SettingsEnabled
  /\ value # webcamPosition.y
  /\ webcamPosition' = [webcamPosition EXCEPT !.y = value]
  /\ settingChanges' = settingChanges + 1
  /\ UNCHANGED <<videoQuality, webcamSize, webcamBorderRadius, showPreview,
                 capturedSettings, callSettings, webcamVideoSize, overlay,
                 sessionVars>>

\* The border radius slider and the preview switch.
SetWebcamBorderRadius(value) ==
  /\ SettingsEnabled
  /\ value # webcamBorderRadius
  /\ webcamBorderRadius' = value
  /\ settingChanges' = settingChanges + 1
  /\ UNCHANGED <<videoQuality, webcamPosition, webcamSize, showPreview,
                 capturedSettings, callSettings, webcamVideoSize, overlay,
                 sessionVars>>

SetShowPreview(value) ==
  /\ SettingsEnabled
  /\ value # showPreview
  /\ showPreview' = value
  /\ settingChanges' = settingChanges + 1
  /\ UNCHANGED <<videoQuality, webcamPosition, webcamSize, webcamBorderRadius,
                 capturedSettings, callSettings, webcamVideoSize, overlay,
                 sessionVars>>

\* Component with its settings panel, followed through the first
\* SettingsCalls calls of startRecording.
SettingsCallSet == 1..SettingsCalls

NextSettings ==
  \/ \E value \in VideoQuality : SetVideoQuality(value)
  \/ \E value \in WebcamSizes : SetWebcamSize(value)
  \/ \E value \in Positions : SetWebcamX(value)
  \/ \E value \in Positions : SetWebcamY(value)
  \/ \E value \in BorderRadii : SetWebcamBorderRadius(value)
  \/ \E value \in BOOLEAN : SetShowPreview(value)
  \/ \E c \in SettingsCallSet : ClickStart(c)
  \/ \E c \in SettingsCallSet : DisplayGranted(c)
  \/ \E c \in SettingsCallSet : DisplayDenied(c)
  \/ \E c \in SettingsCallSet : WebcamGranted(c)
  \/ \E c \in SettingsCallSet : WebcamDenied(c)
  \/ \E c \in SettingsCallSet : CheckAudio(c)
  \/ ClickPause
  \/ ClickResume
  \/ ClickStop
  \/ \E c \in SettingsCallSet : ScreenDataAvailable(c)
  \/ \E c \in SettingsCallSet : WebcamDataAvailable(c)
  \/ \E c \in SettingsCallSet : ScreenStopEvent(c)
  \/ \E c \in SettingsCallSet : WebcamStopEvent(c)
  \/ \E c \in SettingsCallSet : UserEndsShare(c)
  \/ \E c \in SettingsCallSet : ScreenTracksEnded(c)
  \/ \E c \in SettingsCallSet : WebcamTracksEnded(c)
  \/ \E c \in SettingsCallSet, ctxOk, playOk \in BOOLEAN :
       ScreenLoadedMetadata(c, ctxOk, playOk)
  \/ \E c \in SettingsCallSet, ctxOk, playOk \in BOOLEAN :
       WebcamLoadedMetadata(c, ctxOk, playOk)
  \/ \E c \in SettingsCallSet : ScreenVideoEnded(c)
  \/ \E c \in SettingsCallSet : WebcamVideoEnded(c)
  \/ \E c \in SettingsCallSet : drawFrame(c)
  \/ \E c \in SettingsCallSet : CombinedStopEvent(c)
  \/ \E c \in SettingsCallSet : FinalStopEvent(c)
  \/ Unmount

SpecSettings == Init /\ [][NextSettings]_vars

\* C13: the composite uses the settings the user selected: the combineVideos
\* that a startRecording call will run holds the videoQuality, webcamPosition
\* and webcamSize in effect when Start is pressed, and the canvas size and the
\* overlay geometry of its run are computed from them.
C13_CompositeUsesSelectedSettings ==
  [][\A c \in Calls :
       /\ (pc[c] = "unused" /\ pc'[c] = "awaitDisplay")
            => callSettings'[c] = Captured(videoQuality, webcamPosition, webcamSize)
       /\ (combinePc[c] = "awaitMetadata" /\ combinePc'[c] = "compositing")
            => overlay' = Overlay(callSettings[c].videoQuality,
                                  callSettings[c].webcamSize,
                                  callSettings[c].webcamPosition,
                                  webcamVideoSize)]_vars

\* A session is under way: a startRecording call waits for a permission
\* prompt, or the component shows "recording", "paused" or "processing".
SessionUnderWay ==
  \/ \E c \in Calls : pc[c] \in {"awaitDisplay", "awaitUser"}
  \/ recordingState \in {"recording", "paused", "processing"}

\* C20: settings are frozen for the duration of a session: no step taken
\* while a session is under way changes videoQuality, webcamPosition,
\* webcamSize, webcamBorderRadius or showPreview.
C20_SettingsFrozen ==
  [][SessionUnderWay
       => UNCHANGED <<videoQuality, webcamPosition, webcamSize,
                      webcamBorderRadius, showPreview>>]_vars

----------------------------------------------------------------------------
\* The overlay geometry of combineVideos on its own: lines 182-190 applied to
\* every setting of the panel and every webcam.

\* A component whose settings were chosen and whose callbacks hold them (a
\* change of size and position followed by a change of quality), before any
\* session.
InitGeom ==
  /\ videoQuality \in VideoQuality
  /\ webcamPosition \in [x : Positions \cup {initialWebcamPosition.x},
                         y : Positions \cup {initialWebcamPosition.y}]
  /\ webcamSize \in WebcamSizes \cup {initialWebcamSize}
  /\ webcamBorderRadius = initialWebcamBorderRadius
  /\ showPreview = FALSE
  /\ settingChanges = 0
  /\ capturedSettings = Captured(videoQuality, webcamPosition, webcamSize)
  /\ callSettings = [c \in Calls |-> capturedSettings]
  /\ webcamVideoSize = [videoWidth |-> 1280, videoHeight |-> 720]
  /\ InitSession

\* The webcam whose video will be recorded.
ChooseWebcam(video) ==
  /\ ~overlay.computed
  /\ webcamVideoSize' = video
  /\ UNCHANGED <<settingVars, capturedSettings, callSettings, overlay,
                 sessionVars>>

\* combineVideos, lines 182-190, with the settings in its closure.
ComputeOverlay ==
  /\ ~overlay.computed
  /\ overlay' = Overlay(capturedSettings.videoQuality, capturedSettings.webcamSize,
                        capturedSettings.webcamPosition, webcamVideoSize)
  /\ UNCHANGED <<settingVars, capturedSettings, callSettings, webcamVideoSize,
                 sessionVars>>

NextGeom ==
  \/ \E video \in WebcamVideoSizes : ChooseWebcam(video)
  \/ ComputeOverlay

SpecGeom == InitGeom /\ [][NextGeom]_vars

----------------------------------------------------------------------------
\* Properties of the overlay geometry, checked under SpecGeom.

\* webcamX and webcamY as combineVideos computes them for other positions,
\* with the rest of the settings as they are (in the units of Overlay).
WebcamXAt(x) ==
  Overlay(videoQuality, webcamSize, [webcamPosition EXCEPT !.x = x],
          webcamVideoSize).webcamX

WebcamYAt(y) ==
  Overlay(videoQuality, webcamSize, [webcamPosition EXCEPT !.y = y],
          webcamVideoSize).webcamY

\* The x part of C8: the width is webcamSize percent of the canvas width,
\* equal steps of x move the overlay by equal amounts, x = 0 is flush left,
\* x = 100 flush right, and webcamX is non-decreasing in x.
OverlayLinearInX ==
  overlay.computed =>
    /\ overlay.webcamWidth = webcamSize * (overlay.width \div 100)
    /\ \A x \in positionMin..(positionMax - 1) :
         /\ WebcamXAt(x + 1) - WebcamXAt(x) = WebcamXAt(1) - WebcamXAt(0)
         /\ WebcamXAt(x) <= WebcamXAt(x + 1)
    /\ WebcamXAt(positionMin) = 0
    /\ WebcamXAt(positionMax) + overlay.webcamWidth = overlay.width
    /\ overlay.webcamX = WebcamXAt(webcamPosition.x)

\* The y part of C8.
OverlayLinearInY ==
  overlay.computed =>
    /\ \A y \in positionMin..(positionMax - 1) :
         /\ WebcamYAt(y + 1) - WebcamYAt(y) = WebcamYAt(1) - WebcamYAt(0)
         /\ WebcamYAt(y) <= WebcamYAt(y + 1)
    /\ WebcamYAt(positionMin) = 0
    /\ WebcamYAt(positionMax) + overlay.webcamHeight = overlay.height
    /\ overlay.webcamY = WebcamYAt(webcamPosition.y)

\* C22: the overlay lies inside the canvas: 0 <= webcamX,
\* webcamX + webcamWidth <= width, 0 <= webcamY and
\* webcamY + webcamHeight <= height, for every setting of the panel and every
\* webcam resolution.
C22_OverlayInsideCanvas ==
  overlay.computed =>
    /\ 0 <= overlay.webcamX
    /\ overlay.webcamX + overlay.webcamWidth <= overlay.width
    /\ 0 <= overlay.webcamY
    /\ overlay.webcamY + overlay.webcamHeight <= overlay.height

\* C8: the overlay percentages map linearly into pixel coordinates: the
\* width is webcamSize percent of the canvas width, webcamX is x percent of
\* (width - webcamWidth) and webcamY is y percent of (height - webcamHeight),
\* so position 0 is flush with the left (top) edge, position 100 with the
\* right (bottom) edge, and webcamX (webcamY) is non-decreasing in x (y).
C8_LinearOverlay == OverlayLinearInX /\ OverlayLinearInY

====
